---------------------------- MODULE Spec2Model ----------------------------
(***************************************************************************)
(* Weather acquisition and caching subsystem of guided-energy-backend:     *)
(* the scraper (WeatherScraperService), the favourites reconciler and the  *)
(* weather cache (FavoritesService) over the SQLite store, and the HTTP    *)
(* handlers that call them.                                                *)
(*                                                                         *)
(* Strings the code compares, sorts or converts are sequences of character *)
(* codes; null / undefined is the empty sequence <<>> and a present value  *)
(* v is <<v>>.  Time is in seconds.                                        *)
(***************************************************************************)
EXTENDS Integers, Sequences, FiniteSets, TLC

VARIABLES
    cities,          \* rows of table cities: [id, name]
    nextCityId,      \* AUTOINCREMENT counter of table cities
    user_favorites,  \* rows of table user_favorites: <<user_id, city_id, k>>, k
                     \* numbering the rows of one pair (the row id is never read)
    weather_data,    \* rows of table weather_data
    nextWeatherId,   \* AUTOINCREMENT counter of table weather_data
    now,             \* the store's clock, datetime('now'), in seconds
    ticks,           \* number of clock advances so far
    started,         \* startServer has run
    credentials,     \* config.weatherCom.username and password are both set
    isLoggedIn,      \* WeatherScraperService.isLoggedIn
    sessionCookies,  \* WeatherScraperService.sessionCookies
    inflight,        \* getFavoriteCities calls awaiting scrapeMultipleCities
    batch,           \* the scrapeMultipleCities call in progress, step by step
    txn,             \* the transaction open on the one store connection, if any
    adds,            \* addFavoriteCities calls in progress, statement by statement
    ret              \* what the last completed call did and returned

vars == <<cities, nextCityId, user_favorites, weather_data, nextWeatherId,
          now, ticks, started, credentials, isLoggedIn, sessionCookies,
          inflight, batch, txn, adds, ret>>

-----------------------------------------------------------------------------
(* Bounds of the model *)

MaxReq == 2        \* longest request list enumerated in full
MaxTicks == 1      \* clock advances
MaxReadings == 2   \* rows of weather_data
MaxAdds == 2       \* addFavoriteCities calls made statement by statement
MaxInflight == 2   \* getFavoriteCities calls in progress at once

(* Program constants *)

FreshSeconds == 1800    \* datetime('now', '-30 minutes')
MaxCities == 10         \* Joi .max(10)
MinCities == 1          \* Joi .min(1)
PolitenessDelayMs == 1500   \* setTimeout(resolve, 1500)

-----------------------------------------------------------------------------
(* Strings *)

London == <<76, 111, 110, 100, 111, 110>>
london == <<108, 111, 110, 100, 111, 110>>
Leeds == <<76, 101, 101, 100, 115>>
Birmingham == <<66, 105, 114, 109, 105, 110, 103, 104, 97, 109>>
Manchester == <<77, 97, 110, 99, 104, 101, 115, 116, 101, 114>>
Glasgow == <<71, 108, 97, 115, 103, 111, 119>>
york == <<121, 111, 114, 107>>
York == <<89, 111, 114, 107>>
birmingham == <<98, 105, 114, 109, 105, 110, 103, 104, 97, 109>>
manchester == <<109, 97, 110, 99, 104, 101, 115, 116, 101, 114>>
glasgow == <<103, 108, 97, 115, 103, 111, 119>>
leeds == <<108, 101, 101, 100, 115>>
constructor == <<99, 111, 110, 115, 116, 114, 117, 99, 116, 111, 114>>
proto == <<95, 95, 112, 114, 111, 116, 111, 95, 95>>

\* "Môn" and "MÔN"
Mon == <<77, 244, 110>>
MON == <<77, 212, 78>>

\* the capital letters of Latin-1 beyond ASCII (À..Þ without the sign ×), and
\* the small letters that have a capital in Latin-1 (à..þ without ÷)
IsLatin1Upper(c) == c \in 192..222 /\ c # 215
IsLatin1Lower(c) == c \in 224..254 /\ c # 247

\* String.prototype.toLowerCase, which follows Unicode, on ASCII and Latin-1
\* text
toLowerCase(s) ==
    [i \in 1..Len(s) |->
        IF s[i] \in 65..90 \/ IsLatin1Upper(s[i]) THEN s[i] + 32 ELSE s[i]]

\* String.prototype.toUpperCase on ASCII and Latin-1 text whose capitals are
\* single Latin-1 letters
toUpperCase(s) ==
    [i \in 1..Len(s) |->
        IF s[i] \in 97..122 \/ IsLatin1Lower(s[i]) THEN s[i] - 32 ELSE s[i]]

\* SQLite's built-in LOWER(): it folds the 26 ASCII letters and leaves every
\* other character as it is
LOWER(s) ==
    [i \in 1..Len(s) |-> IF s[i] \in 65..90 THEN s[i] + 32 ELSE s[i]]

\* a < b in SQLite's default BINARY collation (bytewise)
BinaryLess(a, b) ==
    \E k \in 1..(Len(a) + 1) :
        /\ \A j \in 1..(k - 1) : j <= Len(b) /\ a[j] = b[j]
        /\ \/ k > Len(a) /\ k <= Len(b)
           \/ k <= Len(a) /\ k <= Len(b) /\ a[k] < b[k]

-----------------------------------------------------------------------------
(* The store *)

Users == {1, 2}

\* INSERT OR IGNORE of the default UK cities
ukCities ==
    { [id |-> 1, name |-> London], [id |-> 2, name |-> Birmingham],
      [id |-> 3, name |-> Manchester], [id |-> 4, name |-> Glasgow],
      [id |-> 5, name |-> Leeds] }

\* the tables one favourites transaction reads and writes
Tables ==
    [cities |-> cities, nextCityId |-> nextCityId, user_favorites |-> user_favorites]

\* ... ORDER BY c.name
RECURSIVE OrderByName(_)
OrderByName(rows) ==
    IF rows = {} THEN <<>>
    ELSE LET first == CHOOSE c \in rows :
                          \A d \in rows : d = c \/ BinaryLess(c.name, d.name)
         IN <<first>> \o OrderByName(rows \ {first})

\* the join without its WHERE clause: the favourite cities of all users
FavoriteRowsOfAllUsers(db, userId) ==
    {c \in db.cities : \E f \in db.user_favorites : f[2] = c.id}

\* SELECT c.* FROM cities c INNER JOIN user_favorites uf ... WHERE uf.user_id = ?
FavoriteRows(db, userId) ==
    {c \in db.cities : \E f \in db.user_favorites : f[1] = userId /\ f[2] = c.id}


-----------------------------------------------------------------------------
(* FavoritesService.addFavoriteCities *)

\* The store call that is made to fail, if any: the call `step` made for the
\* name at position `at` (0 for the calls outside the loop).
NoFailure == [at |-> 0, step |-> "none"]

FailPoints(cityNames) ==
    {NoFailure}
    \cup {[at |-> 0, step |-> s] : s \in {"begin", "delete", "commit"}}
    \cup {[at |-> i, step |-> s] :
              i \in 1..Len(cityNames), s \in {"lookup", "create", "reget", "link"}}

\* SELECT * FROM cities WHERE LOWER(name) = LOWER(?)
FindCity(db, cityName) ==
    {c \in db.cities : LOWER(c.name) = LOWER(cityName)}

\* INSERT INTO cities (name, country) VALUES (?, 'UK')
InsertCity(db, cityName) ==
    [db EXCEPT !.cities = @ \cup {[id |-> db.nextCityId, name |-> cityName]},
               !.nextCityId = @ + 1]

\* name TEXT UNIQUE
CityNameTaken(db, cityName) == \E c \in db.cities : c.name = cityName

\* INSERT INTO user_favorites (user_id, city_id) VALUES (?, ?)
InsertFavorite(db, userId, cityId) ==
    LET same == {f \in db.user_favorites : f[1] = userId /\ f[2] = cityId}
    IN [db EXCEPT !.user_favorites = @ \cup {<<userId, cityId, Cardinality(same) + 1>>}]

\* UNIQUE(user_id, city_id)
FavoriteTaken(db, userId, cityId) ==
    \E f \in db.user_favorites : f[1] = userId /\ f[2] = cityId

\* SELECT * FROM user_favorites WHERE user_id = ?
LinksOf(db, userId) == {f \in db.user_favorites : f[1] = userId}

\* the DELETE without its WHERE clause
DeleteAllFavorites(db, userId) == [db EXCEPT !.user_favorites = {}]

\* DELETE FROM user_favorites WHERE user_id = ?
DeleteFavorites(db, userId) ==
    [db EXCEPT !.user_favorites = {f \in @ : f[1] # userId}]

\* a store call threw: what call, and for the name at which position
Thrown(db, what, at) == [db |-> db, err |-> what, at |-> at]

\* the body of `for (const cityName of cityNames)`, from position i on
RECURSIVE AddLoop(_, _, _, _, _)
AddLoop(db, userId, cityNames, i, fail) ==
    IF i > Len(cityNames) THEN [db |-> db, err |-> "none", at |-> 0]
    ELSE
      LET cityName == cityNames[i]
          f == IF fail.at = i THEN fail.step ELSE "none"
          found == FindCity(db, cityName)
          Link(d, cityId) ==
              IF f = "link" THEN Thrown(d, "link", i)
              ELSE IF FavoriteTaken(d, userId, cityId) THEN Thrown(d, "unique", i)
              ELSE AddLoop(InsertFavorite(d, userId, cityId), userId, cityNames, i + 1, fail)
      IN IF f = "lookup" THEN Thrown(db, "lookup", i)
         ELSE IF found # {}
           THEN Link(db, (CHOOSE c \in found : TRUE).id)
         ELSE IF f = "create" \/ CityNameTaken(db, cityName)
           THEN Thrown(db, "create", i)
         ELSE IF f = "reget" THEN Thrown(InsertCity(db, cityName), "reget", i)
         ELSE Link(InsertCity(db, cityName), db.nextCityId)

\* a ROLLBACK that undoes nothing
RollbackKeepsChanges(before, current) == current

\* ROLLBACK: the tables as they were at BEGIN TRANSACTION

Rollback(before, current) == before

\* the whole call: [db: the tables afterwards, err: the store call that threw]
addFavoriteCities(db, userId, cityNames, fail) ==
    IF fail.at = 0 /\ fail.step = "begin" THEN Thrown(Rollback(db, db), "begin", 0)
    ELSE IF fail.at = 0 /\ fail.step = "delete" THEN Thrown(Rollback(db, db), "delete", 0)
    ELSE
      LET r == AddLoop(DeleteFavorites(db, userId), userId, cityNames, 1, fail)
      IN IF r.err # "none" THEN Thrown(Rollback(db, r.db), r.err, r.at)
         ELSE IF fail.at = 0 /\ fail.step = "commit"
           THEN Thrown(Rollback(db, r.db), "commit", 0)
         ELSE r

-----------------------------------------------------------------------------
(* POST /v1/favorites *)

\* the schema without .max(10)
SchemaWithoutMax(body) == Len(body) >= MinCities

\* Joi.array().items(Joi.string()).min(1).max(10).required()

addFavoritesSchema(body) == Len(body) >= MinCities /\ Len(body) <= MaxCities

\* validate(schema): the request is rejected with 400 unless the body fits
validate(body) == addFavoritesSchema(body)

\* the controller's own check: !Array.isArray(cities) || cities.length === 0
controllerRejects(body) == Len(body) = 0

-----------------------------------------------------------------------------
(* Pages and the extraction chains *)

\* a fetched page: for each selector of TEMP_SELECTORS / CONDITION_SELECTORS, in
\* order, the text of the first element it matches ("" when it matches none)
Sunny == <<83, 117, 110, 110, 121>>
Deg15 == <<49, 53, 176>>
Dashes == <<45, 45>>
Deg7C == <<55, 176, 67>>
Blanks == <<32, 32>>
RainPadded == <<32, 82, 97, 105, 110, 32>>
unknown == <<117, 110, 107, 110, 111, 119, 110>>
Minus3Deg == <<45, 51, 176>>

PageBlank ==
    [temp |-> <<<<>>, <<>>, <<>>, <<>>, <<>>, <<>>>>,
     cond |-> <<<<>>, <<>>, <<>>, <<>>, <<>>, <<>>>>]

PageSunny ==
    [temp |-> <<Deg15, <<>>, <<>>, <<>>, <<>>, <<>>>>,
     cond |-> <<Sunny, <<>>, <<>>, <<>>, <<>>, <<>>>>]

PageFallback ==
    [temp |-> <<Dashes, <<>>, Deg7C, <<>>, <<>>, Deg15>>,
     cond |-> <<Blanks, <<>>, RainPadded, <<>>, <<>>, Sunny>>]

PageFrost ==
    [temp |-> <<<<>>, Minus3Deg, <<>>, <<>>, <<>>, <<>>>>,
     cond |-> <<<<>>, <<>>, <<>>, <<>>, <<>>, Blanks>>]

Pages == {PageBlank, PageSunny, PageFallback, PageFrost}

\* what one upstream fetch does: it fails (timeout, network or browser error)
\* or it delivers a page
\* closed: the page the authenticated path opened is gone when the fetch is over
FetchFailed == [ok |-> FALSE, page |-> PageBlank, closed |-> TRUE]

\* the authenticated path failing at `await page.close()` of its finally
\* block (line 282) with the page still open
CloseFailed == [ok |-> FALSE, page |-> PageBlank, closed |-> FALSE]

FetchedSunny == [ok |-> TRUE, page |-> PageSunny, closed |-> TRUE]

Outcomes == {FetchFailed} \cup {[ok |-> TRUE, page |-> p, closed |-> TRUE] : p \in Pages}

IsDigit(c) == c \in 48..57

IsSpace(c) == c \in {9, 10, 11, 12, 13, 32, 160}

\* tempText.replace(/[^\d-]/g, '')
StripNonNumeric(text) == SelectSeq(text, LAMBDA c : IsDigit(c) \/ c = 45)

RECURSIVE DigitsValue(_, _, _)
DigitsValue(s, i, acc) ==
    IF i > Len(s) \/ ~IsDigit(s[i]) THEN acc
    ELSE DigitsValue(s, i + 1, acc * 10 + (s[i] - 48))

\* parseInt(s) of a string of digits and minus signs: <<>> is NaN
parseInt(s) ==
    LET neg == Len(s) >= 1 /\ s[1] = 45
        from == IF neg THEN 2 ELSE 1
    IN IF from > Len(s) \/ ~IsDigit(s[from]) THEN <<>>
       ELSE <<(IF neg THEN -1 ELSE 1) * DigitsValue(s, from, 0)>>

RECURSIVE trim(_)
trim(text) ==
    IF text = <<>> THEN text
    ELSE IF IsSpace(Head(text)) THEN trim(Tail(text))
    ELSE IF IsSpace(text[Len(text)]) THEN trim(SubSeq(text, 1, Len(text) - 1))
    ELSE text

\* extractTemperature returning what the first non-empty text parses to
extractTemperatureFirstText(page, i) ==
    LET texts == {k \in i..Len(page.temp) : page.temp[k] # <<>>}
    IN IF texts = {} THEN <<>>
       ELSE LET k == CHOOSE k \in texts : \A j \in texts : k <= j
            IN parseInt(StripNonNumeric(page.temp[k]))

\* extractTemperature, from selector i on
RECURSIVE extractTemperatureFrom(_, _)
extractTemperatureFrom(page, i) ==
    IF i > Len(page.temp) THEN <<>>
    ELSE LET tempText == page.temp[i]
             tempNum == parseInt(StripNonNumeric(tempText))
         IN IF tempText # <<>> /\ tempNum # <<>> THEN tempNum
            ELSE extractTemperatureFrom(page, i + 1)

extractTemperature(page) == extractTemperatureFrom(page, 1)

\* extractCondition testing the text before it is trimmed
extractConditionFirstText(page, i) ==
    LET texts == {k \in i..Len(page.cond) : page.cond[k] # <<>>}
    IN IF texts = {} THEN unknown
       ELSE LET k == CHOOSE k \in texts : \A j \in texts : k <= j
            IN toLowerCase(trim(page.cond[k]))

\* extractCondition, from selector i on
RECURSIVE extractConditionFrom(_, _)
extractConditionFrom(page, i) ==
    IF i > Len(page.cond) THEN unknown
    ELSE LET condText == trim(page.cond[i])
         IN IF condText # <<>> THEN toLowerCase(condText)
            ELSE extractConditionFrom(page, i + 1)

extractCondition(page) == extractConditionFrom(page, 1)

-----------------------------------------------------------------------------
(* The city resolver *)

\* a JavaScript value that is a string, or a value of another kind
Str(text) == [kind |-> "string", text |-> text]
NotAString(kind) == [kind |-> kind, text |-> <<>>]
undefined == NotAString("undefined")

\* the own properties of the object literal CITY_MAPPINGS
CITY_MAPPINGS ==
    (london :> <<85, 75, 88, 88, 48, 48, 56, 53, 58, 49, 58, 85, 75>>)
    @@ (birmingham :> <<85, 75, 88, 88, 48, 48, 49, 54, 58, 49, 58, 85, 75>>)
    @@ (manchester :> <<85, 75, 88, 88, 48, 48, 57, 53, 58, 49, 58, 85, 75>>)
    @@ (glasgow :> <<85, 75, 88, 88, 48, 48, 54, 49, 58, 49, 58, 85, 75>>)
    @@ (leeds :> <<85, 75, 88, 88, 48, 48, 56, 52, 58, 49, 58, 85, 75>>)

\* `:1:UK`
RegionSuffix == <<58, 49, 58, 85, 75>>

\* CITY_MAPPINGS[key]: an own property, else a property the object literal
\* inherits from Object.prototype (of those, the keys a lower-cased name can
\* equal are `constructor`, the function Object, and `__proto__`, the
\* prototype object), else undefined
GetProperty(key) ==
    IF key \in DOMAIN CITY_MAPPINGS THEN Str(CITY_MAPPINGS[key])
    ELSE IF key = constructor THEN NotAString("function")
    ELSE IF key = proto THEN NotAString("object")
    ELSE undefined

\* CITY_MAPPINGS[cityName.toLowerCase()] || `${cityName.toUpperCase()}:1:UK`
getCityCode(cityName) ==
    LET entry == GetProperty(toLowerCase(cityName))
    IN IF entry # undefined /\ entry # Str(<<>>) THEN entry
       ELSE Str(toUpperCase(cityName) \o RegionSuffix)

-----------------------------------------------------------------------------
(* WeatherScraperService, in the version the file holds first (six selectors *)
(* per chain, 1500 ms between the cities of a batch)                        *)

unavailable == <<117, 110, 97, 118, 97, 105, 108, 97, 98, 108, 101>>
error == <<101, 114, 114, 111, 114>>

\* a WeatherData value
Reading(city, temperature, condition, scraped_at) ==
    [city |-> city, temperature |-> temperature,
     weather_condition |-> condition, scraped_at |-> scraped_at]

\* the session as a scrape reads it
Session == [isLoggedIn |-> isLoggedIn, sessionCookies |-> sessionCookies]

\* a JavaScript string or null used as a condition: null and '' are falsy
Truthy(s) == s # <<>> /\ s[1] # <<>>

\* scrapeWithoutLogin: axios.get, then the cheerio extraction
scrapeWithoutLogin(cityName, out) ==
    IF ~out.ok THEN [threw |-> TRUE, data |-> Reading(cityName, <<>>, unknown, <<>>)]
    ELSE [threw |-> FALSE,
          data |-> Reading(cityName, extractTemperature(out.page),
                           extractCondition(out.page), <<>>)]

\* scrapeWithSession: newPage, setCookie, goto, the two selector loops, close
scrapeWithSession(cityName, out) ==
    IF ~out.ok THEN [threw |-> TRUE, data |-> Reading(cityName, <<>>, unknown, <<>>)]
    ELSE [threw |-> FALSE,
          data |-> Reading(cityName, extractTemperatureFrom(out.page, 1),
                           extractConditionFrom(out.page, 1), <<>>)]

\* one upstream fetch, as the call that made it saw it: the city, the path,
\* the code in the URL `https://weather.com/weather/today/l/${cityCode}`,
\* whether it delivered a page, and the page
Fetch(cityName, path, out) ==
    [city |-> cityName, path |-> path, code |-> getCityCode(cityName),
     ok |-> out.ok, page |-> out.page, closed |-> path = "public" \/ out.closed]

\* scrapeCity with the catch block re-raising instead of returning a reading
scrapeCityRethrows(sess, cityName, out) ==
    LET auth == sess.isLoggedIn /\ Truthy(sess.sessionCookies)
        r == IF auth THEN scrapeWithSession(cityName, out)
             ELSE scrapeWithoutLogin(cityName, out)
    IN [threw |-> r.threw, data |-> r.data, sess |-> sess,
        fetches |-> <<Fetch(cityName, IF auth THEN "session" ELSE "public", out)>>]

\* scrapeCity marking the session as logged out when the authenticated fetch
\* fails
scrapeCityInvalidatesSession(sess, cityName, out) ==
    LET auth == sess.isLoggedIn /\ Truthy(sess.sessionCookies)
        r == IF auth THEN scrapeWithSession(cityName, out)
             ELSE scrapeWithoutLogin(cityName, out)
    IN [threw |-> FALSE,
        data |-> IF r.threw THEN Reading(cityName, <<>>, unavailable, <<>>) ELSE r.data,
        sess |-> IF auth /\ r.threw THEN [sess EXCEPT !.isLoggedIn = FALSE] ELSE sess,
        fetches |-> <<Fetch(cityName, IF auth THEN "session" ELSE "public", out)>>]

\* scrapeCity fetching a second time when the first fetch fails
scrapeCityRetries(sess, cityName, out) ==
    LET auth == sess.isLoggedIn /\ Truthy(sess.sessionCookies)
        r == IF auth THEN scrapeWithSession(cityName, out)
             ELSE scrapeWithoutLogin(cityName, out)
        fetch == Fetch(cityName, IF auth THEN "session" ELSE "public", out)
    IN [threw |-> FALSE,
        data |-> IF r.threw THEN Reading(cityName, <<>>, unavailable, <<>>) ELSE r.data,
        sess |-> sess,
        fetches |-> IF r.threw THEN <<fetch, fetch>> ELSE <<fetch>>]

\* scrapeCity: [threw, data, sess: the session fields after the call (it
\* assigns neither), fetches: the upstream fetches it made]
scrapeCity(sess, cityName, out) ==
    LET auth == sess.isLoggedIn /\ Truthy(sess.sessionCookies)
        r == IF auth THEN scrapeWithSession(cityName, out)
             ELSE scrapeWithoutLogin(cityName, out)
    IN [threw |-> FALSE,
        data |-> IF r.threw THEN Reading(cityName, <<>>, unavailable, <<>>) ELSE r.data,
        sess |-> sess,
        fetches |-> <<Fetch(cityName, IF auth THEN "session" ELSE "public", out)>>]

\* the loop of scrapeMultipleCities from position i on; outs[i] is what the
\* fetch for cities[i] does
RECURSIVE scrapeLoop(_, _, _, _)
scrapeLoop(sess, cityList, outs, i) ==
    IF i > Len(cityList) THEN [data |-> <<>>, fetches |-> <<>>, sess |-> sess]
    ELSE LET city == cityList[i]
             r == scrapeCity(sess, city, outs[i])
             rest == scrapeLoop(r.sess, cityList, outs, i + 1)
             weatherData == IF r.threw THEN Reading(city, <<>>, error, <<>>) ELSE r.data
         IN [data |-> <<weatherData>> \o rest.data,
             fetches |-> r.fetches \o rest.fetches,
             sess |-> rest.sess]

\* scrapeMultipleCities dropping the cities whose reading is a failure sentinel
scrapeMultipleCitiesDropsFailed(sess, cityList, outs) ==
    LET r == scrapeLoop(sess, cityList, outs, 1)
    IN [data |-> SelectSeq(r.data, LAMBDA w : w.temperature # <<>>),
        fetches |-> r.fetches, sess |-> r.sess]

\* scrapeMultipleCities giving up at the first failed fetch: the cities after
\* it get the "error" reading
scrapeMultipleCitiesAbortsAfterFailure(sess, cityList, outs) ==
    LET r == scrapeLoop(sess, cityList, outs, 1)
    IN [data |-> [i \in 1..Len(r.data) |->
                     IF \E j \in 1..(i - 1) : ~outs[j].ok
                       THEN Reading(cityList[i], <<>>, error, <<>>)
                     ELSE r.data[i]],
        fetches |-> r.fetches, sess |-> r.sess]

scrapeMultipleCities(sess, cityList, outs) == scrapeLoop(sess, cityList, outs, 1)

-----------------------------------------------------------------------------
(* FavoritesService.getFavoriteCities and the weather cache *)

\* the freshness test with >= for >: a reading exactly 30 minutes old is fresh
FreshAtBoundary(row, t) == row.scraped_at >= t - FreshSeconds

\* the freshness test with < for >: only the old readings are served
FreshInverted(row, t) == row.scraped_at < t - FreshSeconds

\* datetime(scraped_at) > datetime('now', '-30 minutes')

Fresh(row, t) == row.scraped_at > t - FreshSeconds

\* the query with ORDER BY scraped_at ASC: the oldest fresh row
CachedRowsOldestFirst(rows, cityId, t) ==
    LET fresh == {r \in rows : r.city_id = cityId /\ Fresh(r, t)}
    IN {r \in fresh : \A q \in fresh : q.scraped_at >= r.scraped_at}

\* SELECT * FROM weather_data WHERE city_id = ? AND <fresh>
\* ORDER BY scraped_at DESC LIMIT 1: the rows this may return
CachedRows(rows, cityId, t) ==
    LET fresh == {r \in rows : r.city_id = cityId /\ Fresh(r, t)}
    IN {r \in fresh : \A q \in fresh : q.scraped_at <= r.scraped_at}

\* the choices of one cached row (or none) per favourite city the query allows
CachePicks(rows, favoriteCities, t) ==
    LET ids == {favoriteCities[i].id : i \in 1..Len(favoriteCities)}
    IN {p \in [ids -> {<<>>} \cup {<<r>> : r \in rows}] :
          \A id \in ids :
             IF CachedRows(rows, id, t) = {} THEN p[id] = <<>>
             ELSE p[id] # <<>> /\ p[id][1] \in CachedRows(rows, id, t)}

\* the first loop: the readings served from the cache, in favoriteCities order
RECURSIVE cachedResults(_, _, _)
cachedResults(favoriteCities, pick, i) ==
    IF i > Len(favoriteCities) THEN <<>>
    ELSE LET city == favoriteCities[i]
             rest == cachedResults(favoriteCities, pick, i + 1)
         IN IF pick[city.id] # <<>>
              THEN <<Reading(city.name, pick[city.id][1].temperature,
                             pick[city.id][1].weather_condition,
                             <<pick[city.id][1].scraped_at>>)>> \o rest
            ELSE rest

\* the first loop: the names pushed to citiesToScrape
RECURSIVE citiesToScrape(_, _, _)
citiesToScrape(favoriteCities, pick, i) ==
    IF i > Len(favoriteCities) THEN <<>>
    ELSE LET city == favoriteCities[i]
             rest == citiesToScrape(favoriteCities, pick, i + 1)
         IN IF pick[city.id] # <<>> THEN rest ELSE <<city.name>> \o rest

\* favoriteCities.find(c => c.name.toLowerCase() === weatherData.city.toLowerCase())
findCity(favoriteCities, name) ==
    LET hits == {i \in 1..Len(favoriteCities) :
                    toLowerCase(favoriteCities[i].name) = toLowerCase(name)}
    IN IF hits = {} THEN <<>>
       ELSE <<favoriteCities[CHOOSE i \in hits : \A j \in hits : i <= j]>>

\* the insert as INSERT OR REPLACE keyed by the city: the city's earlier rows go
ReplaceReading(store, cityId, weatherData, t) ==
    [rows |-> {r \in store.rows : r.city_id # cityId} \cup
                {[id |-> store.nextId, city_id |-> cityId,
                  temperature |-> weatherData.temperature,
                  weather_condition |-> weatherData.weather_condition,
                  scraped_at |-> t]},
     nextId |-> store.nextId + 1]

\* the row the insert stores; scraped_at defaults to CURRENT_TIMESTAMP
InsertReading(store, cityId, weatherData, t) ==
    [rows |-> store.rows \cup
                {[id |-> store.nextId, city_id |-> cityId,
                  temperature |-> weatherData.temperature,
                  weather_condition |-> weatherData.weather_condition,
                  scraped_at |-> t]},
     nextId |-> store.nextId + 1]

\* cacheWeatherData with the catch block re-raising the store's error
cacheWeatherDataRethrows(store, cityId, weatherData, rejected, t) ==
    IF rejected THEN [store |-> store, threw |-> TRUE]
    ELSE [store |-> InsertReading(store, cityId, weatherData, t), threw |-> FALSE]

\* cacheWeatherData storing only readings that carry a temperature
cacheWeatherDataSkipsNull(store, cityId, weatherData, rejected, t) ==
    IF rejected \/ weatherData.temperature = <<>> THEN [store |-> store, threw |-> FALSE]
    ELSE [store |-> InsertReading(store, cityId, weatherData, t), threw |-> FALSE]

\* cacheWeatherData: INSERT INTO weather_data (city_id, temperature,
\* weather_condition).  A rejected insert is logged and swallowed.
cacheWeatherData(store, cityId, weatherData, rejected, t) ==
    IF rejected THEN [store |-> store, threw |-> FALSE]
    ELSE [store |-> InsertReading(store, cityId, weatherData, t), threw |-> FALSE]

\* one call of cacheWeatherData, as getFavoriteCities made it
Write(cityId, weatherData, rejected) ==
    [city_id |-> cityId, temperature |-> weatherData.temperature,
     weather_condition |-> weatherData.weather_condition, rejected |-> rejected]

\* the second loop: cache each fresh reading and push it, from position j on;
\* an error cacheWeatherData raises ends the loop
RECURSIVE cacheLoop(_, _, _, _, _, _)
cacheLoop(store, favoriteCities, freshWeatherData, rejects, j, t) ==
    IF j > Len(freshWeatherData)
      THEN [store |-> store, data |-> <<>>, writes |-> <<>>, threw |-> FALSE]
    ELSE LET weatherData == freshWeatherData[j]
             city == findCity(favoriteCities, weatherData.city)
         IN IF city = <<>>
              THEN cacheLoop(store, favoriteCities, freshWeatherData, rejects, j + 1, t)
            ELSE LET w == cacheWeatherData(store, city[1].id, weatherData, rejects[j], t)
                     rest == cacheLoop(w.store, favoriteCities, freshWeatherData,
                                       rejects, j + 1, t)
                     write == Write(city[1].id, weatherData, rejects[j])
                 IN IF w.threw
                      THEN [store |-> w.store, data |-> <<>>,
                            writes |-> <<write>>, threw |-> TRUE]
                    ELSE [store |-> rest.store,
                          data |-> <<weatherData>> \o rest.data,
                          writes |-> <<write>> \o rest.writes,
                          threw |-> rest.threw]

\* getFavoriteCities losing the reading of a city whose fetch failed
getFavoriteCitiesDropsFailed(db, store, sess, userId, pick, outs, rejects, t) ==
    LET favoriteCities == OrderByName(FavoriteRows(db, userId))
        toScrape == citiesToScrape(favoriteCities, pick, 1)
        scraped == scrapeMultipleCitiesDropsFailed(sess, toScrape, outs)
        cached == cacheLoop(store, favoriteCities, scraped.data, rejects, 1, t)
    IN [data |-> cachedResults(favoriteCities, pick, 1) \o cached.data,
        store |-> cached.store, fetches |-> scraped.fetches,
        batches |-> IF toScrape = <<>> THEN <<>> ELSE <<toScrape>>,
        writes |-> cached.writes, threw |-> cached.threw]

\* getFavoriteCities up to the call of the scraper: the favourites query and
\* the first loop; pick is the cached row the store returns per city
readFavorites(db, userId, pick) ==
    LET favoriteCities == OrderByName(FavoriteRows(db, userId))
    IN [favoriteCities |-> favoriteCities,
        weatherResults |-> cachedResults(favoriteCities, pick, 1),
        citiesToScrape |-> citiesToScrape(favoriteCities, pick, 1)]

\* getFavoriteCities from the call of the scraper on, for a call that found
\* stale cities: outs[k] is what the fetch for the k-th stale city does,
\* rejects[k] whether the store rejects the insert of its reading, t the time
\* of the inserts
scrapeAndCache(read, store, sess, outs, rejects, t) ==
    LET scraped == scrapeMultipleCities(sess, read.citiesToScrape, outs)
        cached == cacheLoop(store, read.favoriteCities, scraped.data, rejects, 1, t)
    IN [data |-> IF cached.threw THEN <<>> ELSE read.weatherResults \o cached.data,
        store |-> cached.store, fetches |-> scraped.fetches,
        batches |-> <<read.citiesToScrape>>, writes |-> cached.writes,
        threw |-> cached.threw]

\* getFavoriteCities calling scrapeMultipleCities once per stale city
getFavoriteCitiesScrapesOneByOne(db, store, sess, userId, pick, outs, rejects, t) ==
    LET read == readFavorites(db, userId, pick)
        r == scrapeAndCache(read, store, sess, outs, rejects, t)
    IN [r EXCEPT !.batches = [k \in 1..Len(read.citiesToScrape) |->
                                 <<read.citiesToScrape[k]>>]]

\* getFavoriteCities run from its first to its last line; threw: the call
\* raised the ApiError of its catch block instead of returning data
getFavoriteCities(db, store, sess, userId, pick, outs, rejects, t) ==
    LET read == readFavorites(db, userId, pick)
    IN IF read.favoriteCities = <<>>
         THEN [data |-> <<>>, store |-> store,
               fetches |-> <<>>, batches |-> <<>>, writes |-> <<>>, threw |-> FALSE]
       ELSE IF read.citiesToScrape = <<>>
         THEN [data |-> read.weatherResults, store |-> store,
               fetches |-> <<>>, batches |-> <<>>, writes |-> <<>>, threw |-> FALSE]
       ELSE scrapeAndCache(read, store, sess, outs, rejects, t)

-----------------------------------------------------------------------------
(* WeatherScraperService.loginToWeatherCom *)

NoCookies == <<>>
SidCookie == <<115, 105, 100, 61, 49>>

\* what the handshake does: browser.newPage() throws, a step inside the try
\* block throws, or the login goes through and page.cookies() yields `cookies`
\* joined with '; '; page.close() in the finally block may throw as well, and
\* then the page is gone (closed) or still open
LoginOutcomes ==
    {lo \in [kind : {"newPageThrows", "handshakeFails", "success"},
             cookies : {NoCookies, SidCookie}, closeThrows : BOOLEAN,
             closed : BOOLEAN] : ~lo.closeThrows => lo.closed}

\* the success branch setting the flag without storing what page.cookies() gave
handshakeKeepsOldCookies(sess, lo) ==
    IF lo.kind = "newPageThrows"
      THEN [sess |-> sess, returned |-> FALSE, threw |-> TRUE, newPages |-> 1,
            captured |-> <<>>, openPages |-> 0]
    ELSE IF lo.kind = "success"
      THEN [sess |-> [sess EXCEPT !.isLoggedIn = TRUE],
            returned |-> ~lo.closeThrows, threw |-> lo.closeThrows, newPages |-> 1,
            captured |-> <<lo.cookies>>, openPages |-> IF lo.closed THEN 0 ELSE 1]
    ELSE [sess |-> [sess EXCEPT !.isLoggedIn = FALSE],
          returned |-> FALSE, threw |-> lo.closeThrows, newPages |-> 1,
          captured |-> <<>>, openPages |-> IF lo.closed THEN 0 ELSE 1]

\* the call from browser.newPage() on: [sess: the session afterwards,
\* returned: the boolean returned, threw: the call raised instead,
\* newPages: the calls of browser.newPage() it made, captured: the cookies
\* page.cookies() gave it, if it got that far, openPages: the pages it opened
\* that are open when it is over]
handshake(sess, lo) ==
    IF lo.kind = "newPageThrows"
      THEN [sess |-> sess, returned |-> FALSE, threw |-> TRUE, newPages |-> 1,
            captured |-> <<>>, openPages |-> 0]
    ELSE IF lo.kind = "success"
      THEN [sess |-> [isLoggedIn |-> TRUE, sessionCookies |-> <<lo.cookies>>],
            returned |-> ~lo.closeThrows, threw |-> lo.closeThrows, newPages |-> 1,
            captured |-> <<lo.cookies>>, openPages |-> IF lo.closed THEN 0 ELSE 1]
    ELSE [sess |-> [sess EXCEPT !.isLoggedIn = FALSE],
          returned |-> FALSE, threw |-> lo.closeThrows, newPages |-> 1,
          captured |-> <<>>, openPages |-> IF lo.closed THEN 0 ELSE 1]

\* loginToWeatherCom without the test of the configured credentials
loginSkipsCredentialsCheck(sess, configured, lo) == handshake(sess, lo)

loginToWeatherCom(sess, configured, lo) ==
    IF ~configured
      THEN [sess |-> sess, returned |-> FALSE, threw |-> FALSE, newPages |-> 0,
            captured |-> <<>>, openPages |-> 0]
    ELSE handshake(sess, lo)

-----------------------------------------------------------------------------
(* The calls *)

\* had: the favourite links of the caller when its addFavoriteCities began
NoRet ==
    [op |-> "none", user |-> 0, cities |-> <<>>, status |-> "ok", err |-> "none",
     errAt |-> 0, newPages |-> 0, captured |-> <<>>, had |-> {},
     data |-> <<>>, fetches |-> <<>>, batches |-> <<>>, writes |-> <<>>,
     starts |-> <<>>, openPages |-> 0,
     pre |-> [tables |-> [cities |-> ukCities, nextCityId |-> 6, user_favorites |-> {}],
              rows |-> {}, at |-> 0,
              sess |-> [isLoggedIn |-> FALSE, sessionCookies |-> <<>>]]]

\* the tables and the session as the call found them, and when
Pre == [tables |-> Tables, rows |-> weather_data, at |-> now, sess |-> Session]

\* the connection is in autocommit mode: no transaction is open
NoTxn == [active |-> FALSE, before |-> NoRet.pre.tables]

\* no batch is in progress.  phase: where the call stands ("fetching": at
\* `await this.scrapeCity(city)`, "delaying": at the await of the timer,
\* "caught": in the catch block), pos: the position of `city` in the list,
\* waited: milliseconds since the timer was set, starts: one record per
\* upstream fetch begun, flying: the positions whose fetch has begun and has
\* not come back
NoBatch ==
    [phase |-> "none", cities |-> <<>>, pos |-> 0, results |-> <<>>, fetches |-> <<>>,
     waited |-> 0, starts |-> <<>>, flying |-> {}, pre |-> NoRet.pre]

Init ==
    /\ cities = ukCities
    /\ nextCityId = 6
    /\ user_favorites = {}
    /\ weather_data = {}
    /\ nextWeatherId = 1
    /\ now = 0
    /\ ticks = 0
    /\ started = FALSE
    /\ credentials \in BOOLEAN
    /\ isLoggedIn = FALSE
    /\ sessionCookies = <<>>
    /\ inflight = <<>>
    /\ batch = NoBatch
    /\ txn = NoTxn
    /\ adds = <<>>
    /\ ret = NoRet

\* no call is in progress: the last result has been handed to its caller
Idle == ret = NoRet

\* the result of the call is handed to its caller (res.send, or the return to
\* startServer)
Respond ==
    /\ ~Idle
    /\ ret' = NoRet
    /\ UNCHANGED <<cities, nextCityId, user_favorites, weather_data, nextWeatherId,
                   now, ticks, started, credentials, isLoggedIn, sessionCookies,
                   inflight, batch, txn, adds>>

storeVars == <<cities, nextCityId, user_favorites, weather_data, nextWeatherId>>
clockVars == <<now, ticks>>
sessionVars == <<isLoggedIn, sessionCookies>>

\* one call of loginToWeatherCom on the service instance
CallLogin(outcomes) ==
    \E lo \in outcomes :
        LET r == loginToWeatherCom(Session, credentials, lo)
        IN /\ isLoggedIn' = r.sess.isLoggedIn
           /\ sessionCookies' = r.sess.sessionCookies
           /\ ret' = [NoRet EXCEPT !.op = "loginToWeatherCom",
                                   !.status = IF r.threw THEN "threw" ELSE "ok",
                                   !.err = IF r.returned THEN "true" ELSE "false",
                                   !.newPages = r.newPages,
                                   !.captured = r.captured,
                                   !.openPages = r.openPages,
                                   !.pre = Pre]

\* index.ts startServer: the one login attempt, before the server listens
StartServer(outcomes) ==
    /\ Idle
    /\ ~started
    /\ CallLogin(outcomes)
    /\ started' = TRUE
    /\ UNCHANGED <<storeVars, clockVars, credentials, inflight, batch, txn, adds>>

\* a later call of the public method loginToWeatherCom on the exported
\* service instance (a re-authentication)
Login(outcomes) ==
    /\ Idle
    /\ started
    /\ CallLogin(outcomes)
    /\ UNCHANGED <<storeVars, clockVars, started, credentials, inflight, batch, txn, adds>>

\* time passes
Tick(deltas) ==
    /\ Idle
    /\ ticks < MaxTicks
    /\ \E d \in deltas : now' = now + d
    /\ ticks' = ticks + 1
    /\ UNCHANGED <<storeVars, started, credentials, sessionVars, inflight, batch, txn, adds, ret>>

\* GET /v1/weather/city/:cityName -> scrapeCity
ScrapeCity(names, outcomes) ==
    /\ Idle
    /\ started
    /\ \E cityName \in names, out \in outcomes :
         LET r == scrapeCity(Session, cityName, out)
         IN /\ ret' = [NoRet EXCEPT !.op = "scrapeCity", !.cities = <<cityName>>,
                                    !.status = IF r.threw THEN "threw" ELSE "ok",
                                    !.data = IF r.threw THEN <<>> ELSE <<r.data>>,
                                    !.fetches = r.fetches, !.pre = Pre]
            /\ isLoggedIn' = r.sess.isLoggedIn
            /\ sessionCookies' = r.sess.sessionCookies
    /\ UNCHANGED <<storeVars, clockVars, started, credentials, inflight, batch, txn, adds>>

\* GET /v1/weather/cities -> scrapeMultipleCities
ScrapeMultipleCities(lists, outcomes) ==
    /\ Idle
    /\ started
    /\ \E cityList \in lists :
         \E outs \in [1..Len(cityList) -> outcomes] :
           LET r == scrapeMultipleCities(Session, cityList, outs)
           IN /\ ret' = [NoRet EXCEPT !.op = "scrapeMultipleCities",
                                      !.cities = cityList,
                                      !.data = r.data, !.fetches = r.fetches,
                                      !.batches = <<cityList>>, !.pre = Pre]
              /\ isLoggedIn' = r.sess.isLoggedIn
              /\ sessionCookies' = r.sess.sessionCookies
    /\ UNCHANGED <<storeVars, clockVars, started, credentials, inflight, batch, txn, adds>>

\* POST /v1/favorites: validate(addFavoritesSchema), the controller, the service
PostFavorites(users, requests, failing) ==
    /\ Idle
    /\ started
    /\ \E userId \in users, body \in requests :
         \E fail \in (IF failing THEN FailPoints(body) ELSE {NoFailure}) :
           IF ~validate(body) \/ controllerRejects(body)
             THEN /\ ret' = [NoRet EXCEPT !.op = "addFavorites", !.user = userId,
                                          !.cities = body, !.status = "bad_request",
                                          !.had = LinksOf(Tables, userId),
                                          !.pre = Pre]
                  /\ UNCHANGED <<cities, nextCityId, user_favorites>>
           ELSE LET r == addFavoriteCities(Tables, userId, body, fail)
                IN /\ cities' = r.db.cities
                   /\ nextCityId' = r.db.nextCityId
                   /\ user_favorites' = r.db.user_favorites
                   /\ ret' = [NoRet EXCEPT !.op = "addFavorites", !.user = userId,
                                !.cities = body,
                                !.status = IF r.err = "none" THEN "ok" ELSE "error",
                                !.err = r.err, !.errAt = r.at,
                                !.had = LinksOf(Tables, userId), !.pre = Pre]
    /\ UNCHANGED <<weather_data, nextWeatherId, clockVars, started, credentials,
                   sessionVars, inflight, batch, txn, adds>>

\* GET /v1/favorites -> getFavoriteCities
GetFavorites(users, outcomes, rejections) ==
    /\ Idle
    /\ started
    /\ \E userId \in users :
         LET favoriteCities == OrderByName(FavoriteRows(Tables, userId))
         IN \E pick \in CachePicks(weather_data, favoriteCities, now) :
              LET n == Len(citiesToScrape(favoriteCities, pick, 1))
              IN \E outs \in [1..n -> outcomes], rejects \in [1..n -> rejections] :
                   LET r == getFavoriteCities(
                              Tables, [rows |-> weather_data, nextId |-> nextWeatherId],
                              Session, userId, pick, outs, rejects, now)
                   IN /\ Cardinality(r.store.rows) <= MaxReadings
                      /\ weather_data' = r.store.rows
                      /\ nextWeatherId' = r.store.nextId
                      /\ ret' = [NoRet EXCEPT !.op = "getFavoriteCities", !.user = userId,
                                   !.status = IF r.threw THEN "error" ELSE "ok",
                                   !.data = r.data, !.fetches = r.fetches,
                                   !.batches = r.batches, !.writes = r.writes,
                                   !.pre = Pre]
    /\ UNCHANGED <<cities, nextCityId, user_favorites, clockVars, started, credentials,
                   sessionVars, inflight, batch, txn, adds>>

\* GET /v1/favorites -> getFavoriteCities, up to `await scrapeMultipleCities`:
\* a call that finds no stale city returns; any other call is in progress from
\* here on, with what it read
GetFavoritesRead(users) ==
    /\ Idle
    /\ started
    /\ \E userId \in users :
         \E pick \in CachePicks(weather_data,
                                OrderByName(FavoriteRows(Tables, userId)), now) :
           LET read == readFavorites(Tables, userId, pick)
           IN IF read.citiesToScrape = <<>>
                THEN /\ ret' = [NoRet EXCEPT !.op = "getFavoriteCities", !.user = userId,
                                             !.data = read.weatherResults, !.pre = Pre]
                     /\ UNCHANGED inflight
              ELSE /\ Len(inflight) < MaxInflight
                   /\ inflight' = Append(inflight,
                                         [user |-> userId, read |-> read, pre |-> Pre])
                   /\ UNCHANGED ret
    /\ UNCHANGED <<storeVars, clockVars, started, credentials, sessionVars, batch, txn, adds>>

\* a sequence without its k-th element
Without(seq, k) == SubSeq(seq, 1, k - 1) \o SubSeq(seq, k + 1, Len(seq))

\* getFavoriteCities from the return of scrapeMultipleCities on, for one of the
\* calls in progress: the second loop and the return
GetFavoritesWrite(outcomes, rejections) ==
    /\ Idle
    /\ \E k \in 1..Len(inflight) :
         LET call == inflight[k]
             n == Len(call.read.citiesToScrape)
         IN \E outs \in [1..n -> outcomes], rejects \in [1..n -> rejections] :
              LET r == scrapeAndCache(call.read,
                                      [rows |-> weather_data, nextId |-> nextWeatherId],
                                      Session, outs, rejects, now)
              IN /\ Cardinality(r.store.rows) <= MaxReadings
                 /\ weather_data' = r.store.rows
                 /\ nextWeatherId' = r.store.nextId
                 /\ inflight' = Without(inflight, k)
                 /\ ret' = [NoRet EXCEPT !.op = "getFavoriteCities", !.user = call.user,
                              !.status = IF r.threw THEN "error" ELSE "ok",
                              !.data = r.data, !.fetches = r.fetches,
                              !.batches = r.batches, !.writes = r.writes,
                              !.pre = call.pre]
    /\ UNCHANGED <<cities, nextCityId, user_favorites, clockVars, started, credentials,
                   sessionVars, batch, txn, adds>>

-----------------------------------------------------------------------------
(* scrapeMultipleCities step by step: one step per await of its loop *)

\* the loop enters its next iteration and calls scrapeCity, which begins the
\* upstream fetch
startFetch(b) ==
    [b EXCEPT !.phase = "fetching",
              !.pos = b.pos + 1,
              !.starts = Append(b.starts, [city |-> b.cities[b.pos + 1],
                                           produced |-> Len(b.results),
                                           waited |-> b.waited]),
              !.flying = b.flying \cup {b.pos + 1}]

\* the timer resolving its promise without waiting
delayNotAwaited(b) == TRUE

\* setTimeout(resolve, 1500) has fired: not before the delay has passed
delayElapsed(b) == b.waited >= PolitenessDelayMs

\* `for (const city of cities)`: a city of the list is still to come
moreCitiesButLast(b) == b.pos < Len(b.cities) - 1

moreCities(b) == b.pos < Len(b.cities)

\* scrapeMultipleCities is called: an empty list returns at once, otherwise
\* the first iteration begins
BatchStart(lists) ==
    /\ Idle
    /\ started
    /\ batch.phase = "none"
    /\ \E cityList \in lists :
         IF cityList = <<>>
           THEN /\ ret' = [NoRet EXCEPT !.op = "scrapeMultipleCities",
                                        !.batches = <<cityList>>, !.pre = Pre]
                /\ UNCHANGED batch
         ELSE /\ batch' = startFetch([NoBatch EXCEPT !.cities = cityList, !.pre = Pre])
              /\ UNCHANGED ret
    /\ UNCHANGED <<storeVars, clockVars, started, credentials, sessionVars, inflight, txn, adds>>

\* scrapeCity comes back: the reading is pushed and the timer is set; had it
\* raised, the catch block pushes the 'error' reading and sets no timer
BatchFetchDone(outcomes) ==
    /\ batch.phase = "fetching"
    /\ \E out \in outcomes :
         LET city == batch.cities[batch.pos]
             r == scrapeCity(Session, city, out)
         IN /\ batch' = [batch EXCEPT
                          !.phase = IF r.threw THEN "caught" ELSE "delaying",
                          !.results = Append(batch.results,
                                             IF r.threw
                                               THEN Reading(city, <<>>, error, <<>>)
                                             ELSE r.data),
                          !.fetches = batch.fetches \o r.fetches,
                          !.flying = batch.flying \ {batch.pos},
                          !.waited = 0]
            /\ isLoggedIn' = r.sess.isLoggedIn
            /\ sessionCookies' = r.sess.sessionCookies
    /\ UNCHANGED <<storeVars, clockVars, started, credentials, inflight, txn, adds, ret>>

\* time passes while the call waits for its timer
BatchElapse(deltas) ==
    /\ batch.phase = "delaying"
    /\ batch.waited < PolitenessDelayMs
    /\ \E d \in deltas : batch' = [batch EXCEPT !.waited = batch.waited + d]
    /\ UNCHANGED <<storeVars, clockVars, started, credentials, sessionVars, inflight, txn, adds, ret>>

\* the iteration is over: the loop goes on to the next city, or the call
\* returns its results
BatchDelayDone ==
    /\ Idle
    /\ \/ batch.phase = "caught"
       \/ batch.phase = "delaying" /\ delayElapsed(batch)
    /\ IF moreCities(batch)
         THEN /\ batch' = startFetch(batch)
              /\ UNCHANGED ret
       ELSE /\ batch' = NoBatch
            /\ ret' = [NoRet EXCEPT !.op = "scrapeMultipleCities",
                                    !.cities = batch.cities,
                                    !.data = batch.results,
                                    !.fetches = batch.fetches,
                                    !.batches = <<batch.cities>>,
                                    !.starts = batch.starts,
                                    !.pre = batch.pre]
    /\ UNCHANGED <<storeVars, clockVars, started, credentials, sessionVars, inflight, txn, adds>>

-----------------------------------------------------------------------------
(* addFavoriteCities statement by statement on the shared connection: one   *)
(* step per awaited db.run / db.get                                         *)

\* a statement rejected: the call goes to its catch block
Raise(call, what) ==
    [call EXCEPT !.pc = "rollback", !.err = what,
                 !.errAt = IF call.pc \in {"lookup", "create", "reget", "link"}
                             THEN call.i ELSE 0]

\* the loop goes on to the next name, or the call goes on to COMMIT
NextName(call) ==
    IF call.i < Len(call.cityNames)
      THEN [call EXCEPT !.pc = "lookup", !.i = call.i + 1]
    ELSE [call EXCEPT !.pc = "commit"]

\* a statement went through and the call is not over
Goes(db, t, call) == [db |-> db, txn |-> t, call |-> call, done |-> FALSE]

\* the call is over: it returns, or it raises
Over(db, t, call) == [db |-> db, txn |-> t, call |-> call, done |-> TRUE]

\* BEGIN TRANSACTION on the connection: refused inside a transaction
beginTransaction(db, t, call, fail) ==
    IF fail \/ t.active THEN Goes(db, t, Raise(call, "begin"))
    ELSE Goes(db, [active |-> TRUE, before |-> db], [call EXCEPT !.pc = "delete"])

\* COMMIT on the connection: refused when no transaction is open
commit(db, t, call, fail) ==
    IF fail \/ ~t.active THEN Goes(db, t, Raise(call, "commit"))
    ELSE Over(db, NoTxn, [call EXCEPT !.pc = "returned"])

\* a catch block that raises without ROLLBACK
catchWithoutRollback(db, t, call) == Over(db, t, [call EXCEPT !.pc = "raised"])

\* the catch block: ROLLBACK undoes the transaction open on the connection,
\* whoever began it, and the call raises the ApiError; with no transaction
\* open ROLLBACK is refused and its error leaves the catch block
catchRollback(db, t, call) ==
    IF t.active THEN Over(Rollback(t.before, db), NoTxn, [call EXCEPT !.pc = "raised"])
    ELSE Over(db, t, [call EXCEPT !.pc = "raised", !.err = "rollback"])

\* the statement the call is waiting on is run by the connection; `fail`: the
\* store rejects it for a reason of its own
statement(db, t, call, fail) ==
    LET cityName == call.cityNames[call.i]
        found == FindCity(db, cityName)
    IN CASE call.pc = "begin" -> beginTransaction(db, t, call, fail)
         [] call.pc = "delete" ->
              IF fail THEN Goes(db, t, Raise(call, "delete"))
              ELSE Goes(DeleteFavorites(db, call.user), t, NextName(call))
         [] call.pc = "lookup" ->
              IF fail THEN Goes(db, t, Raise(call, "lookup"))
              ELSE IF found # {}
                THEN Goes(db, t, [call EXCEPT !.pc = "link",
                                              !.cityId = (CHOOSE c \in found : TRUE).id])
              ELSE Goes(db, t, [call EXCEPT !.pc = "create"])
         [] call.pc = "create" ->
              IF fail \/ CityNameTaken(db, cityName)
                THEN Goes(db, t, Raise(call, "create"))
              ELSE Goes(InsertCity(db, cityName), t,
                        [call EXCEPT !.pc = "reget", !.cityId = db.nextCityId])
         [] call.pc = "reget" ->
              IF fail \/ ~\E c \in db.cities : c.id = call.cityId
                THEN Goes(db, t, Raise(call, "reget"))
              ELSE Goes(db, t, [call EXCEPT !.pc = "link"])
         [] call.pc = "link" ->
              IF fail THEN Goes(db, t, Raise(call, "link"))
              ELSE IF FavoriteTaken(db, call.user, call.cityId)
                THEN Goes(db, t, Raise(call, "unique"))
              ELSE IF ~\E c \in db.cities : c.id = call.cityId
                THEN Goes(db, t, Raise(call, "foreign_key"))
              ELSE Goes(InsertFavorite(db, call.user, call.cityId), t, NextName(call))
         [] call.pc = "commit" -> commit(db, t, call, fail)
         [] call.pc = "rollback" -> catchRollback(db, t, call)

\* a call that is over, kept in the log of the calls made
Finished(call) ==
    [call EXCEPT !.pc = "over", !.i = 0, !.cityId = 0, !.err = "none", !.errAt = 0]

\* POST /v1/favorites with a valid body: addFavoriteCities is entered and
\* waits on its first statement; a user waits for the answer to one request
\* before sending the next
AddCall(users, requests) ==
    /\ Idle
    /\ started
    /\ Len(adds) < MaxAdds
    /\ \E userId \in users, body \in requests :
         /\ validate(body) /\ ~controllerRejects(body)
         /\ \A k \in 1..Len(adds) : adds[k].pc = "over" \/ adds[k].user # userId
         /\ adds' = Append(adds, [user |-> userId, cityNames |-> body, pc |-> "begin",
                                  i |-> 0, cityId |-> 0, err |-> "none", errAt |-> 0,
                                  had |-> LinksOf(Tables, userId)])
    /\ UNCHANGED <<storeVars, clockVars, started, credentials, sessionVars, inflight,
                   batch, txn, ret>>

\* the connection runs the statement one of the calls is waiting on; the call
\* that ran its last statement returns or raises
AddStep(failing) ==
    /\ Idle
    /\ \E k \in 1..Len(adds), fail \in failing :
         /\ adds[k].pc # "over"
         /\ LET r == statement(Tables, txn, adds[k], fail)
            IN /\ cities' = r.db.cities
               /\ nextCityId' = r.db.nextCityId
               /\ user_favorites' = r.db.user_favorites
               /\ txn' = r.txn
               /\ IF r.done
                    THEN /\ adds' = [adds EXCEPT ![k] = Finished(r.call)]
                         /\ ret' = [NoRet EXCEPT
                                      !.op = "addFavorites", !.user = r.call.user,
                                      !.cities = r.call.cityNames,
                                      !.status = IF r.call.pc = "returned"
                                                   THEN "ok" ELSE "error",
                                      !.err = r.call.err, !.errAt = r.call.errAt,
                                      !.had = r.call.had]
                  ELSE /\ adds' = [adds EXCEPT ![k] = r.call]
                       /\ UNCHANGED ret
    /\ UNCHANGED <<weather_data, nextWeatherId, clockVars, started, credentials,
                   sessionVars, inflight, batch>>

-----------------------------------------------------------------------------
(* Inputs *)

RECURSIVE ListsUpTo(_, _)
ListsUpTo(S, n) ==
    IF n = 0 THEN {<<>>}
    ELSE LET shorter == ListsUpTo(S, n - 1)
         IN shorter \cup {Append(l, x) : l \in {m \in shorter : Len(m) = n - 1}, x \in S}

\* a list of n names
LongList(n) == [i \in 1..n |-> IF i % 2 = 1 THEN London ELSE Leeds]

\* city names asked of the scraper: a mapped city and a case variant of it, an
\* unmapped city and a case variant of it, and a name that is a property of
\* Object.prototype
ScrapeNames == {London, london, york, York, constructor}

\* city names asked as favourites: a seeded city, a case variant of it, and a
\* city that is not seeded
FavoriteNames == {London, london, york}

\* a handshake that fails, and one that succeeds with a session cookie
LoginFails ==
    [kind |-> "handshakeFails", cookies |-> NoCookies, closeThrows |-> FALSE,
     closed |-> TRUE]
LoginSucceeds ==
    [kind |-> "success", cookies |-> SidCookie, closeThrows |-> FALSE, closed |-> TRUE]

Requests ==
    ListsUpTo(FavoriteNames, MaxReq) \cup {LongList(MaxCities), LongList(MaxCities + 1)}

-----------------------------------------------------------------------------
(* Specifications.  The scraper's calls change nothing but their own result, *)
(* and the favourites calls never write the session, so each specification  *)
(* runs the calls of one component over every state the others can leave.   *)

\* the scraper: login at start-up, single-city and batch scrapes
NextScraper ==
    \/ StartServer(LoginOutcomes)
    \/ ScrapeCity(ScrapeNames, Outcomes)
    \/ ScrapeMultipleCities(ListsUpTo(ScrapeNames, MaxReq), Outcomes)
    \/ Respond

SpecScraper == Init /\ [][NextScraper]_vars

\* replacing favourite sets, with every store call of the transaction able to fail
NextFavorites ==
    \/ StartServer({LoginFails})
    \/ PostFavorites(Users, Requests, TRUE)
    \/ Respond

SpecFavorites == Init /\ [][NextFavorites]_vars

\* the cache-aside read path: favourites are set, time passes, favourites are
\* read; the session is authenticated when credentials are configured and
\* anonymous when they are not
NextCache ==
    \/ StartServer({LoginSucceeds})
    \/ Tick({FreshSeconds - 1, FreshSeconds, FreshSeconds + 1})
    \/ PostFavorites({1}, {<<London>>, <<york>>, <<London, york>>}, FALSE)
    \/ GetFavorites(Users, {FetchFailed, FetchedSunny}, BOOLEAN)
    \/ Respond

SpecCache == Init /\ [][NextCache]_vars

\* overlapping reads of the favourites: a getFavoriteCities call awaits the
\* scraper for seconds, and other calls run in the meantime
NextOverlap ==
    \/ StartServer({LoginFails})
    \/ Tick({1, FreshSeconds})
    \/ PostFavorites({1}, {<<London>>}, FALSE)
    \/ GetFavoritesRead({1})
    \/ GetFavoritesWrite({FetchFailed, FetchedSunny}, {FALSE})
    \/ Respond

SpecOverlap == Init /\ [][NextOverlap]_vars

\* the session over the life of the process: the login at start-up, later
\* calls of loginToWeatherCom, and scrapes in between
NextSession ==
    \/ StartServer(LoginOutcomes)
    \/ Login(LoginOutcomes)
    \/ ScrapeCity({London, york}, Outcomes \cup {CloseFailed})
    \/ ScrapeMultipleCities(ListsUpTo({London, york}, MaxReq),
                            {FetchFailed, FetchedSunny})
    \/ Respond

SpecSession == Init /\ [][NextSession]_vars

\* one batch, step by step, with the time its timers take
NextBatch ==
    \/ StartServer({LoginFails, LoginSucceeds})
    \/ BatchStart(ListsUpTo({London, york}, MaxReq))
    \/ BatchFetchDone({FetchFailed, FetchedSunny})
    \/ BatchElapse({500, 1000})
    \/ BatchDelayDone
    \/ Respond

SpecBatch == Init /\ [][NextBatch]_vars

\* the same, where every fetch begun comes back (puppeteer's timeouts end a
\* navigation that hangs), time passes and a timer that is due fires
SpecBatchFair ==
    /\ SpecBatch
    /\ WF_vars(BatchFetchDone({FetchFailed, FetchedSunny}))
    /\ WF_vars(BatchElapse({500, 1000}))
    /\ WF_vars(BatchDelayDone)

\* the city table under favourite requests that name a seeded city and a
\* city with a letter outside ASCII, each in two spellings
NextCities ==
    \/ StartServer({LoginFails})
    \/ PostFavorites(Users, ListsUpTo({London, london, Mon, MON}, MaxReq), FALSE)
    \/ Respond

SpecCities == Init /\ [][NextCities]_vars

\* favourites requests of two users and reads of the first user's favourites
\* on the one connection, statement by statement; the reads' cache writes are
\* rejected by the store, which keeps the readings table out of the picture
NextInterleave ==
    \/ StartServer({LoginFails})
    \/ AddCall(Users, {<<Leeds>>, <<London, york>>})
    \/ AddStep(BOOLEAN)
    \/ GetFavorites({1}, {FetchedSunny}, {TRUE})
    \/ Respond

SpecInterleave == Init /\ [][NextInterleave]_vars

-----------------------------------------------------------------------------
(* Properties *)

\* the call that has just completed
Did(op) == ret.op = op

\* the set of elements of a sequence
Range(seq) == {seq[i] : i \in 1..Len(seq)}

\* C1: scrapeMultipleCities returns exactly one reading per requested city
\* name, and the reading at position i carries the name given at position i,
\* for every list (empty, with duplicates) and every mix of fetch outcomes.
C1_OneReadingPerCityInOrder ==
    Did("scrapeMultipleCities") =>
        /\ Len(ret.data) = Len(ret.cities)
        /\ \A i \in 1..Len(ret.cities) : ret.data[i].city = ret.cities[i]

\* a batch naming the same city twice, whose first fetch failed and whose
\* second fetch succeeded
C1_Witness ==
    /\ Did("scrapeMultipleCities")
    /\ Len(ret.cities) = 2 /\ ret.cities[1] = ret.cities[2]
    /\ ~ret.fetches[1].ok /\ ret.fetches[2].ok
    /\ Len(ret.data) = 2

\* C2: scrapeCity never raises; when the fetch it attempts fails it returns a
\* reading for that city with temperature null and condition "unavailable".
C2_ScrapeCityNeverRaises ==
    Did("scrapeCity") =>
        /\ ret.status = "ok"
        /\ Len(ret.data) = 1
        /\ ret.data[1].city = ret.cities[1]
        /\ (\E i \in 1..Len(ret.fetches) : ~ret.fetches[i].ok) =>
              /\ ret.data[1].temperature = <<>>
              /\ ret.data[1].weather_condition = unavailable

\* a scrapeCity whose fetch on the authenticated path failed
C2_Witness ==
    /\ Did("scrapeCity")
    /\ ret.fetches[1].path = "session" /\ ~ret.fetches[1].ok
    /\ ret.data[1].weather_condition = unavailable

\* C3: when the session is Authenticated and the authenticated fetch for a city
\* fails, scrapeCity attempts the anonymous fetch for the same city within the
\* same call, and returns the "unavailable" reading only if that fetch fails too.
C3_FallsBackToAnonymous ==
    (Did("scrapeCity") /\ ret.fetches[1].path = "session" /\ ~ret.fetches[1].ok) =>
        /\ \E j \in 2..Len(ret.fetches) :
              ret.fetches[j].path = "public" /\ ret.fetches[j].city = ret.cities[1]
        /\ ret.data[1].weather_condition = unavailable =>
              \E j \in 2..Len(ret.fetches) :
                  ret.fetches[j].path = "public" /\ ~ret.fetches[j].ok

\* C11: in one scrapeMultipleCities batch the reading of a city depends only on
\* that city's own fetch: it is the reading scrapeCity gives for that fetch
\* alone, a real one when the fetch succeeds and temperature null with
\* condition "unavailable" when it fails, wherever other cities of the batch
\* fail, and every city after a failed one is still fetched.
C11_ReadingDependsOnOwnFetchOnly ==
    Did("scrapeMultipleCities") =>
        /\ Len(ret.fetches) = Len(ret.cities)
        /\ Len(ret.data) = Len(ret.cities)
        /\ \A i \in 1..Len(ret.cities) :
              LET f == ret.fetches[i]
                  alone == scrapeCity(Session, ret.cities[i],
                                      [ok |-> f.ok, page |-> f.page, closed |-> f.closed])
              IN /\ f.city = ret.cities[i]
                 /\ ret.data[i] = alone.data
                 /\ ~f.ok => ret.data[i] = Reading(ret.cities[i], <<>>, unavailable, <<>>)
                 /\ f.ok => ret.data[i].weather_condition \notin {unavailable, error}

\* a batch of two different cities: the fetch of the first failed, the fetch of
\* the second delivered a page with a temperature
C11_Witness ==
    /\ Did("scrapeMultipleCities")
    /\ Len(ret.cities) = 2 /\ ret.cities[1] # ret.cities[2]
    /\ ~ret.fetches[1].ok /\ ret.data[1].weather_condition = unavailable
    /\ ret.fetches[2].ok /\ ret.data[2].temperature # <<>>

\* C12: with the username or the password not configured, loginToWeatherCom
\* returns false without opening a browser page, the session stays Anonymous,
\* and every later scrape fetches on the anonymous path.
C12_NoCredentialsStaysAnonymous ==
    ~credentials =>
        /\ Did("loginToWeatherCom") =>
              ret.status = "ok" /\ ret.err = "false" /\ ret.newPages = 0
        /\ ~isLoggedIn /\ sessionCookies = <<>>
        /\ \A i \in 1..Len(ret.fetches) : ret.fetches[i].path = "public"

\* without credentials, after the login at start-up, a scrapeCity got a
\* temperature on the anonymous path
C12_Witness ==
    /\ ~credentials /\ started
    /\ Did("scrapeCity")
    /\ ret.fetches[1].path = "public" /\ ret.fetches[1].ok
    /\ ret.data[1].temperature # <<>>

\* C13: loginToWeatherCom completes with a boolean for every outcome of the
\* handshake and never raises.
C13_LoginNeverRaises ==
    Did("loginToWeatherCom") => ret.status = "ok" /\ ret.err \in {"true", "false"}

\* C21: loginToWeatherCom returns true if and only if the session is
\* Authenticated with the captured credential blob when the call is over; a
\* call that does not return true leaves the session Anonymous.
C21_TrueIffAuthenticated ==
    Did("loginToWeatherCom") =>
        /\ (ret.status = "ok" /\ ret.err = "true")
              <=> (isLoggedIn /\ sessionCookies # <<>>)
        /\ (ret.status = "ok" /\ ret.err = "true") =>
              ret.captured # <<>> /\ sessionCookies = ret.captured

\* C22: once a login has succeeded the session stays Authenticated: no later
\* call of scrapeCity, scrapeMultipleCities or loginToWeatherCom, a failing
\* login included, returns it to Anonymous.
C22_AuthenticatedForever ==
    [][isLoggedIn => isLoggedIn']_vars

\* C23: scrapeCity and scrapeMultipleCities never write the session: the
\* authenticated flag and the credential blob are the same before and after
\* the call, whether the fetch succeeds or fails.
C23_ScrapesLeaveSessionUnchanged ==
    (Did("scrapeCity") \/ Did("scrapeMultipleCities")) => Session = ret.pre.sess

\* a batch on an Authenticated session whose first authenticated fetch failed
\* and whose second went through on the authenticated path as well
C23_Witness ==
    /\ Did("scrapeMultipleCities")
    /\ Len(ret.fetches) = 2
    /\ ret.fetches[1].path = "session" /\ ~ret.fetches[1].ok
    /\ ret.fetches[2].path = "session" /\ ret.fetches[2].ok
    /\ isLoggedIn /\ Truthy(sessionCookies)

\* C24: within one scrapeMultipleCities call the cities are fetched strictly
\* one after another in input order: the k-th fetch is for the k-th name, it
\* begins when exactly k-1 readings have been produced and, for k > 1, when
\* the politeness delay has passed since the reading before it; at most one
\* fetch of the batch is in flight at any time.
C24_SequentialWithDelay ==
    /\ Cardinality(batch.flying) <= 1
    /\ \A k \in 1..Len(batch.starts) :
         /\ batch.starts[k].city = batch.cities[k]
         /\ batch.starts[k].produced = k - 1
         /\ k > 1 => batch.starts[k].waited >= PolitenessDelayMs

\* the fetch of the second city is in flight, begun after the first reading
\* and the delay
C24_Witness ==
    /\ batch.phase = "fetching"
    /\ batch.pos = 2
    /\ batch.flying = {2}
    /\ Len(batch.results) = 1
    /\ batch.starts[2].waited >= PolitenessDelayMs

\* C25: within one scrapeCity call there is at most one fetch on the
\* authenticated path and at most one on the anonymous path, so a batch of N
\* cities makes at most 2N upstream fetches, at most one per path for each
\* position of the list.
C25_AtMostOneFetchPerPath ==
    (Did("scrapeCity") \/ Did("scrapeMultipleCities")) =>
        /\ Len(ret.fetches) <= 2 * Len(ret.cities)
        /\ \A name \in Range(ret.cities) : \A path \in {"session", "public"} :
              Cardinality({k \in 1..Len(ret.fetches) :
                              ret.fetches[k].city = name /\ ret.fetches[k].path = path})
                <= Cardinality({i \in 1..Len(ret.cities) : ret.cities[i] = name})

\* a scrapeCity whose only fetch, on the authenticated path, failed
C25_Witness ==
    /\ Did("scrapeCity")
    /\ Len(ret.fetches) = 1
    /\ ret.fetches[1].path = "session" /\ ~ret.fetches[1].ok
    /\ ret.data[1].temperature = <<>>

\* the favourite cities of the caller of the call that has just completed
RetFavorites == FavoriteRows(ret.pre.tables, ret.user)

\* the stored readings of a city that were younger than 30 minutes at the call
YoungRows(cityId) ==
    {r \in ret.pre.rows : r.city_id = cityId /\ now - r.scraped_at < FreshSeconds}

\* the readings of the result that come from the store carry its timestamp
FromCache(w) == w.scraped_at # <<>>

\* C4: getFavoriteCities serves a favourite city from the cache if and only if
\* the city has a stored reading whose age is strictly less than 30 minutes;
\* every other favourite city (newest reading 30 minutes old or older, or no
\* reading) is in the scrape batch.
C4_CacheServesIffYoungerThan30Min ==
    Did("getFavoriteCities") =>
        \A c \in RetFavorites :
            /\ (\E i \in 1..Len(ret.data) :
                    ret.data[i].city = c.name /\ FromCache(ret.data[i]))
                 <=> YoungRows(c.id) # {}
            /\ (\E b \in 1..Len(ret.batches) : c.name \in Range(ret.batches[b]))
                 <=> YoungRows(c.id) = {}

\* a favourite city whose only reading was exactly 30 minutes old was scraped
C4_Witness ==
    /\ Did("getFavoriteCities")
    /\ \E c \in RetFavorites :
          /\ \E r \in ret.pre.rows : r.city_id = c.id /\ now - r.scraped_at = FreshSeconds
          /\ \A r \in ret.pre.rows : r.city_id = c.id => now - r.scraped_at >= FreshSeconds
          /\ ret.batches # <<>> /\ c.name \in Range(ret.batches[1])

\* the rows the call that has just completed added to weather_data
NewRows == weather_data \ ret.pre.rows

\* C14: if the store rejects the write of a scraped reading, getFavoriteCities
\* does not fail: it returns the reading of every scraped city, the rejected
\* ones included, and it stores the readings of the scraped cities whose write
\* the store accepts.
C14_RejectedCacheWriteIsSwallowed ==
    (Did("getFavoriteCities") /\ ret.batches # <<>>) =>
        /\ ret.status = "ok"
        /\ Len(ret.writes) = Len(ret.batches[1])
        /\ \A k \in 1..Len(ret.batches[1]) :
              LET w == ret.writes[k]
              IN /\ \E c \in RetFavorites : c.id = w.city_id /\ c.name = ret.batches[1][k]
                 /\ \E i \in 1..Len(ret.data) :
                       /\ ret.data[i].city = ret.batches[1][k]
                       /\ ~FromCache(ret.data[i])
                       /\ ret.data[i].temperature = w.temperature
                       /\ ret.data[i].weather_condition = w.weather_condition
                 /\ ~w.rejected <=>
                       \E r \in NewRows :
                           /\ r.city_id = w.city_id /\ r.scraped_at = now
                           /\ r.temperature = w.temperature
                           /\ r.weather_condition = w.weather_condition
        /\ Cardinality(NewRows)
              = Cardinality({k \in 1..Len(ret.writes) : ~ret.writes[k].rejected})

\* two stale favourites were scraped; the store rejected the write of the first
\* reading and stored the second
C14_Witness ==
    /\ Did("getFavoriteCities") /\ ret.status = "ok"
    /\ Len(ret.writes) = 2
    /\ ret.writes[1].rejected /\ ~ret.writes[2].rejected
    /\ Len(ret.data) = 2
    /\ Cardinality(NewRows) = 1

\* C15: every reading returned by scrapeCity or scrapeMultipleCities, and
\* every stored reading, has temperature null only when its condition is
\* "unavailable" or "error".
C15_NullTemperatureOnlyWhenUnavailable ==
    /\ \A i \in 1..Len(ret.data) :
          ret.data[i].temperature = <<>> =>
              ret.data[i].weather_condition \in {unavailable, error}
    /\ \A r \in weather_data :
          r.temperature = <<>> => r.weather_condition \in {unavailable, error}

\* C16: getFavoriteCities for a user who has no favourites returns the empty
\* list without raising, without calling the scraper and without writing to
\* the store.
C16_NoFavoritesGivesEmptyList ==
    (Did("getFavoriteCities")
       /\ \A f \in ret.pre.tables.user_favorites : f[1] # ret.user) =>
        /\ ret.status = "ok"
        /\ ret.data = <<>>
        /\ ret.fetches = <<>> /\ ret.batches = <<>> /\ ret.writes = <<>>
        /\ weather_data = ret.pre.rows
        /\ Tables = ret.pre.tables

\* a user without favourites asked while another user had favourites, one of
\* them with a stored reading and one without
C16_Witness ==
    /\ Did("getFavoriteCities")
    /\ \A f \in ret.pre.tables.user_favorites : f[1] # ret.user
    /\ Cardinality(ret.pre.tables.user_favorites) = 2
    /\ Cardinality(ret.pre.rows) = 1
    /\ ret.data = <<>>

\* C17: getCityCode always returns a string and is case-insensitive: any two
\* city names that are equal ignoring case get the identical provider code,
\* which is the static-table entry for a known city and the uppercased name
\* followed by ":1:UK" for any other name.
C17_CityCodeIsStringAndIgnoresCase ==
    \A i, j \in 1..Len(ret.fetches) :
        LET name == ret.fetches[i].city
            code == ret.fetches[i].code
        IN /\ code.kind = "string"
           /\ toLowerCase(name) = toLowerCase(ret.fetches[j].city) =>
                 code = ret.fetches[j].code
           /\ code = IF toLowerCase(name) \in DOMAIN CITY_MAPPINGS
                        THEN Str(CITY_MAPPINGS[toLowerCase(name)])
                      ELSE Str(toUpperCase(name) \o RegionSuffix)

\* the stored readings of a city that were younger than 30 minutes when the
\* call that has just completed read the cache
FreshAtRead(cityId) ==
    {r \in ret.pre.rows :
        r.city_id = cityId /\ ret.pre.at - r.scraped_at < FreshSeconds}

\* C18: a reading served from the cache is a stored reading of the city inside
\* the freshness window, and no other reading of the city inside the window
\* has a later timestamp; a reading outside the window is never served.
C18_ServedIsLatestInWindow ==
    Did("getFavoriteCities") =>
        \A c \in RetFavorites : \A i \in 1..Len(ret.data) :
            (ret.data[i].city = c.name /\ FromCache(ret.data[i])) =>
                \E r \in FreshAtRead(c.id) :
                    /\ ret.data[i] = Reading(c.name, r.temperature,
                                             r.weather_condition, <<r.scraped_at>>)
                    /\ \A q \in FreshAtRead(c.id) : q.scraped_at <= r.scraped_at

\* a city with two readings inside the window, stored at different times by
\* two overlapping calls, was served from the cache
C18_Witness ==
    /\ Did("getFavoriteCities")
    /\ \E c \in RetFavorites :
          /\ \E i \in 1..Len(ret.data) :
                ret.data[i].city = c.name /\ FromCache(ret.data[i])
          /\ \E r, q \in FreshAtRead(c.id) : r.scraped_at < q.scraped_at

\* the favourite cities the call found without a reading inside the window, in
\* name order
StaleCities ==
    LET stale == OrderByName({c \in RetFavorites : YoungRows(c.id) = {}})
    IN [k \in 1..Len(stale) |-> stale[k].name]

\* C19: within one getFavoriteCities call scrapeMultipleCities is invoked at
\* most once, exactly when at least one favourite city is stale, with exactly
\* the list of stale cities, and every upstream fetch of the call belongs to
\* that one batch.
C19_OneBatchOfExactlyTheStaleCities ==
    Did("getFavoriteCities") =>
        /\ Len(ret.batches) <= 1
        /\ ret.batches # <<>> <=> StaleCities # <<>>
        /\ ret.batches # <<>> =>
              /\ ret.batches[1] = StaleCities
              /\ Len(ret.fetches) = Len(ret.batches[1])
              /\ \A k \in 1..Len(ret.fetches) :
                    ret.fetches[k].city = ret.batches[1][k]
        /\ ret.batches = <<>> => ret.fetches = <<>>

\* two stale favourites were scraped in one batch
C19_Witness ==
    /\ Did("getFavoriteCities")
    /\ Len(ret.batches) = 1 /\ Len(ret.batches[1]) = 2
    /\ Len(ret.fetches) = 2

C5_OneReadingPerFavorite ==
    Did("getFavoriteCities") =>
        /\ Len(ret.data) = Cardinality(RetFavorites)
        /\ \A c \in RetFavorites :
              Cardinality({i \in 1..Len(ret.data) : ret.data[i].city = c.name}) = 1

\* two favourites, one served from the cache and one scraped with a failed fetch
C5_Witness ==
    /\ Did("getFavoriteCities")
    /\ Cardinality(RetFavorites) = 2
    /\ \E i \in 1..Len(ret.data) : FromCache(ret.data[i])
    /\ Len(ret.fetches) = 1 /\ ~ret.fetches[1].ok

\* C6: the list returned by getFavoriteCities is in city-name order whatever
\* the partition into cached and scraped cities.
C6_ResultInNameOrder ==
    Did("getFavoriteCities") =>
        \A i, j \in 1..Len(ret.data) :
            i < j => BinaryLess(ret.data[i].city, ret.data[j].city)

\* C7: when a store call of addFavoriteCities fails after the delete (city
\* lookup, city creation, the insert of the k-th favourite link, the commit),
\* the favourite sets after the call are those before the call.
C7_FailedReplaceRestoresFavorites ==
    (Did("addFavorites") /\ ret.status = "error") =>
        /\ user_favorites = ret.pre.tables.user_favorites
        /\ cities = ret.pre.tables.cities

\* the insert of the second favourite link failed for a user who had a
\* favourite before the call
C7_Witness ==
    /\ Did("addFavorites")
    /\ ret.err = "link" /\ ret.errAt = 2
    /\ RetFavorites # {}
    /\ FavoriteRows(Tables, ret.user) = RetFavorites

\* C8: after addFavoriteCities(user, names) succeeds, the user's favourite
\* cities are exactly the cities named in the request, names matched ignoring
\* case, and the favourites of every other user are unchanged.
C8_ReplaceSetsExactlyTheRequest ==
    (Did("addFavorites") /\ ret.status = "ok") =>
        /\ {toLowerCase(c.name) : c \in FavoriteRows(Tables, ret.user)}
              = {toLowerCase(n) : n \in Range(ret.cities)}
        /\ \A f \in user_favorites : \E c \in cities : c.id = f[2]
        /\ \A u \in Users \ {ret.user} :
              {f \in user_favorites : f[1] = u}
                 = {f \in ret.pre.tables.user_favorites : f[1] = u}

\* a successful replace that dropped a favourite held before and matched a
\* seeded city by a name in another case, while another user held favourites
C8_Witness ==
    /\ Did("addFavorites") /\ ret.status = "ok"
    /\ ret.cities = <<london>>
    /\ \E c \in RetFavorites : toLowerCase(c.name) # london
    /\ \E f \in user_favorites : f[1] # ret.user

\* C9: a favourites request with an empty list or with more than 10 names fails
\* with a validation error (400) and leaves the favourite sets unchanged.
C9_EmptyOrOversizedRequestRejected ==
    (Did("addFavorites") /\ (Len(ret.cities) = 0 \/ Len(ret.cities) > MaxCities)) =>
        /\ ret.status = "bad_request"
        /\ user_favorites = ret.pre.tables.user_favorites
        /\ cities = ret.pre.tables.cities

\* a request of 11 names was rejected for a user who holds favourites
C9_Witness ==
    /\ Did("addFavorites")
    /\ Len(ret.cities) = MaxCities + 1
    /\ ret.status = "bad_request"
    /\ FavoriteRows(Tables, ret.user) # {}

\* C10: when every favourite city of the user has a reading inside the
\* freshness window, getFavoriteCities returns the stored temperature,
\* condition and timestamp of such readings, makes no call to the scraper and
\* writes nothing to the store.
C10_AllFreshServedWithoutScrapeOrWrite ==
    (Did("getFavoriteCities") /\ \A c \in RetFavorites : YoungRows(c.id) # {}) =>
        /\ ret.fetches = <<>> /\ ret.batches = <<>> /\ ret.writes = <<>>
        /\ weather_data = ret.pre.rows
        /\ Tables = ret.pre.tables
        /\ Len(ret.data) = Cardinality(RetFavorites)
        /\ \A c \in RetFavorites :
              \E i \in 1..Len(ret.data), r \in YoungRows(c.id) :
                  ret.data[i] = Reading(c.name, r.temperature, r.weather_condition,
                                        <<r.scraped_at>>)

\* two favourites, both served from readings that are 29m59s old
C10_Witness ==
    /\ Did("getFavoriteCities")
    /\ Cardinality(RetFavorites) = 2
    /\ \A c \in RetFavorites : YoungRows(c.id) # {}
    /\ \A r \in ret.pre.rows : now - r.scraped_at = FreshSeconds - 1
    /\ Len(ret.data) = 2

DidScrape == Did("scrapeCity") \/ Did("scrapeMultipleCities")

\* the positions of a list of texts that hold a text with property P, and the
\* first of them
Matching(texts, P(_)) == {i \in 1..Len(texts) : P(texts[i])}
First(S) == CHOOSE i \in S : \A j \in S : i <= j

NonEmpty(text) == text # <<>>
ParsesAsInteger(text) == text # <<>> /\ parseInt(StripNonNumeric(text)) # <<>>
NonBlank(text) == trim(text) # <<>>

\* C27 as stated: the temperature of a fetched page is decided by the first
\* matcher whose text is non-empty: the integer parsed from that text, null
\* when that text does not parse, null when no matcher yields text.
C27_FirstNonEmptyTextDecides ==
    DidScrape =>
        \A k \in 1..Len(ret.fetches) :
            ret.fetches[k].ok =>
                LET texts == ret.fetches[k].page.temp
                    hits == Matching(texts, NonEmpty)
                IN ret.data[k].temperature =
                      IF hits = {} THEN <<>>
                      ELSE parseInt(StripNonNumeric(texts[First(hits)]))

\* C27 amended: the temperature of a fetched page is the integer parsed from
\* the text of the first matcher, in priority order, whose text is non-empty
\* and parses as an integer; a matcher whose text does not parse is passed
\* over; the temperature is null when no matcher has such a text.
C27_FirstParsingTextDecides ==
    DidScrape =>
        \A k \in 1..Len(ret.fetches) :
            ret.fetches[k].ok =>
                LET texts == ret.fetches[k].page.temp
                    hits == Matching(texts, ParsesAsInteger)
                IN ret.data[k].temperature =
                      IF hits = {} THEN <<>>
                      ELSE parseInt(StripNonNumeric(texts[First(hits)]))

\* a page whose first matcher reads "--" and whose third reads "7°C" gave 7
C27_Witness ==
    /\ Did("scrapeCity")
    /\ ret.fetches[1].ok
    /\ ret.fetches[1].page.temp[1] = Dashes
    /\ ret.fetches[1].page.temp[3] = Deg7C
    /\ ret.data[1].temperature = <<7>>

\* C28 as stated: the condition of a fetched page is the trimmed, lower-cased
\* text of the first matcher whose text is non-empty, "unknown" when no
\* matcher yields text; a fetched page yields a reading and not an error.
C28_FirstNonEmptyConditionDecides ==
    DidScrape =>
        \A k \in 1..Len(ret.fetches) :
            ret.fetches[k].ok =>
                LET texts == ret.fetches[k].page.cond
                    hits == Matching(texts, NonEmpty)
                IN /\ ret.status = "ok"
                   /\ ret.data[k].weather_condition =
                         IF hits = {} THEN unknown
                         ELSE toLowerCase(trim(texts[First(hits)]))

\* C28 amended: the condition of a fetched page is the trimmed, lower-cased
\* text of the first matcher whose text is not blank (non-empty after
\* trimming); a matcher whose text is only white space is passed over; the
\* condition is "unknown" when every matcher's text is empty or blank; a
\* fetched page that matches nothing yields a reading with condition
\* "unknown" and not an error.
C28_FirstNonBlankConditionDecides ==
    DidScrape =>
        \A k \in 1..Len(ret.fetches) :
            ret.fetches[k].ok =>
                LET texts == ret.fetches[k].page.cond
                    hits == Matching(texts, NonBlank)
                IN /\ ret.status = "ok"
                   /\ ret.data[k].city = ret.fetches[k].city
                   /\ ret.data[k].weather_condition =
                         IF hits = {} THEN unknown
                         ELSE toLowerCase(trim(texts[First(hits)]))
                   /\ ret.data[k].weather_condition # <<>>

\* a page whose first matcher holds two blanks and whose third holds " Rain "
\* gave "rain"
C28_Witness ==
    /\ Did("scrapeCity")
    /\ ret.fetches[1].ok
    /\ ret.fetches[1].page.cond[1] = Blanks
    /\ ret.fetches[1].page.cond[3] = RainPadded
    /\ ret.data[1].weather_condition = <<114, 97, 105, 110>>

\* the stored readings of the city of that name that were younger than 30
\* minutes when the call began
FreshByName(cityName) ==
    {r \in ret.pre.rows :
        /\ ret.pre.at - r.scraped_at < FreshSeconds
        /\ \E c \in ret.pre.tables.cities : c.id = r.city_id /\ c.name = cityName}

\* C29: a direct single-city or multi-city weather request invokes the
\* scraper only for cities without a fresh stored reading, and every reading
\* it scraped is in the weather cache when it returns.
C29_DirectRequestGoesThroughCache ==
    DidScrape =>
        \A k \in 1..Len(ret.fetches) :
            /\ FreshByName(ret.fetches[k].city) = {}
            /\ \E r \in NewRows :
                  /\ r.temperature = ret.data[k].temperature
                  /\ r.weather_condition = ret.data[k].weather_condition
                  /\ \E c \in cities : c.id = r.city_id /\ c.name = ret.fetches[k].city

\* C30: after any sequence of addFavoriteCities calls no two city rows have
\* names that are equal ignoring case.
C30_CityNamesUniqueIgnoringCase ==
    \A c, d \in cities : toLowerCase(c.name) = toLowerCase(d.name) => c = d

\* the names of a request, ignoring case, with the positions that name them
NamedTwice(cityNames) ==
    \E i, j \in 1..Len(cityNames) :
        i < j /\ toLowerCase(cityNames[i]) = toLowerCase(cityNames[j])

\* C36: in every reachable state there is at most one favourite link per
\* (user, city) pair; an addFavoriteCities request that names the same city
\* more than once, ignoring case, either stores that city once or fails and
\* leaves the user's favourite set as it was.
C36_OneLinkPerUserAndCity ==
    /\ \A f, g \in user_favorites : (f[1] = g[1] /\ f[2] = g[2]) => f = g
    /\ (Did("addFavorites") /\ NamedTwice(ret.cities)) =>
          \/ /\ ret.status = "ok"
             /\ Cardinality({f \in user_favorites : f[1] = ret.user})
                   = Cardinality({toLowerCase(n) : n \in Range(ret.cities)})
          \/ /\ ret.status \in {"error", "bad_request"}
             /\ {f \in user_favorites : f[1] = ret.user}
                   = {f \in ret.pre.tables.user_favorites : f[1] = ret.user}

\* names, ignoring case
Folded(names) == {toLowerCase(n) : n \in names}

\* C31: when addFavoriteCities calls interleave on the shared connection, a
\* call that returns has stored exactly its requested set for its user, and a
\* call that raises leaves its user's favourites as they were when it began.
C31_InterleavedReplaceIsAllOrNothing ==
    Did("addFavorites") =>
        /\ ret.status = "ok" =>
              /\ Folded({c.name : c \in FavoriteRows(Tables, ret.user)})
                    = Folded(Range(ret.cities))
              /\ \A f \in LinksOf(Tables, ret.user) : \E c \in cities : c.id = f[2]
        /\ ret.status = "error" =>
              LinksOf(Tables, ret.user) = ret.had

\* C32: a getFavoriteCities that runs while an addFavoriteCities of the same
\* user is in progress returns readings for the complete set held before the
\* replace or for the complete new set, never for the empty set after the
\* delete nor for a part of the new list.
C32_ReadSeesNoIntermediateSet ==
    Did("getFavoriteCities") =>
        \A k \in 1..Len(adds) :
            (adds[k].user = ret.user /\ adds[k].pc # "over") =>
                LET served == Folded({ret.data[i].city : i \in 1..Len(ret.data)})
                    old == Folded({c.name : c \in {d \in cities :
                                                \E f \in adds[k].had : f[2] = d.id}})
                IN served = old \/ served = Folded(Range(adds[k].cityNames))

\* C34: whenever addFavoriteCities completes, by returning or by raising, no
\* transaction is open on the store connection, also when BEGIN, COMMIT or
\* ROLLBACK was refused.
C34_NoTransactionLeftOpen ==
    Did("addFavorites") => ~txn.active

\* a call whose COMMIT the store rejected raised after its ROLLBACK closed the
\* transaction, while another call was in progress
C34_Witness ==
    /\ Did("addFavorites")
    /\ ret.status = "error" /\ ret.err = "commit"
    /\ \E k \in 1..Len(adds) : adds[k].pc # "over"
    /\ ~txn.active

\* C33: when getFavoriteCities calls overlap and find the same city stale, at
\* most one new reading is appended for it: between the moment a call read the
\* cache and its return, a city the call wrote a reading for has gained at
\* most one row.
C33_StaleCityGainsOneReading ==
    Did("getFavoriteCities") =>
        \A k \in 1..Len(ret.writes) :
            Cardinality({r \in weather_data \ ret.pre.rows :
                            r.city_id = ret.writes[k].city_id}) <= 1

\* C35: scrapeMultipleCities on a list of N cities terminates after exactly N
\* invocations of scrapeCity, provided every fetch comes back: a call in
\* progress has invoked scrapeCity once for each position up to the one it
\* stands at and returns in the end; at its return the k-th invocation was
\* for the k-th name, for every k in 1..N, so that no position was scraped
\* twice and none was skipped.
C35_TerminatesAfterNScrapes ==
    /\ [](/\ batch.phase # "none" =>
               /\ Len(batch.starts) = batch.pos
               /\ batch.pos <= Len(batch.cities)
          /\ Did("scrapeMultipleCities") =>
               /\ Len(ret.starts) = Len(ret.cities)
               /\ \A k \in 1..Len(ret.cities) : ret.starts[k].city = ret.cities[k]
               /\ Len(ret.data) = Len(ret.cities))
    /\ \A cityList \in ListsUpTo({London, york}, MaxReq) :
         (batch.phase # "none" /\ batch.cities = cityList)
            ~> (Did("scrapeMultipleCities") /\ ret.cities = cityList)

\* a call on a list that names one city twice has returned after two
\* invocations of scrapeCity
C35_Witness ==
    /\ Did("scrapeMultipleCities")
    /\ ret.cities = <<London, London>>
    /\ Len(ret.starts) = 2

\* C37: in every state a scrape can observe (the fields are written in one
\* synchronous block, so these are the states between the steps), the
\* authenticated flag is true only if the cookie string is set and is the one
\* captured by the last login whose handshake went through: a step leaves the
\* flag true only if it is such a login and stored what it captured, or if
\* the flag was true already and the step is no such login and left the
\* cookie string alone.  And scrapeCity takes the authenticated path only
\* when the session it found had the flag and a non-empty cookie string.
C37_FlagImpliesBlobOfLastLogin ==
    [][/\ isLoggedIn' =>
            /\ sessionCookies' # <<>>
            /\ IF ret'.op = "loginToWeatherCom" /\ ret'.captured # <<>>
                 THEN sessionCookies' = ret'.captured
               ELSE isLoggedIn /\ sessionCookies' = sessionCookies
       /\ ret'.op \in {"scrapeCity", "scrapeMultipleCities"} =>
            \A k \in 1..Len(ret'.fetches) :
                ret'.fetches[k].path = "session" =>
                    /\ ret'.pre.sess.isLoggedIn
                    /\ Truthy(ret'.pre.sess.sessionCookies)]_vars

\* a scrape found the cookies of an earlier login stored and the flag false
\* (a later login had failed) and went the public path
C37_Witness ==
    /\ Did("scrapeCity")
    /\ ~ret.pre.sess.isLoggedIn
    /\ Truthy(ret.pre.sess.sessionCookies)
    /\ ret.fetches[1].path = "public"

\* C38: every page opened by loginToWeatherCom or by an authenticated fetch is
\* closed when the operation is over, however it ends: no page the login
\* opened is open at its end, and none of the fetches a scrape made on the
\* authenticated path left its page open.
C38_NoPageLeftOpen ==
    /\ Did("loginToWeatherCom") => ret.openPages = 0
    /\ DidScrape => \A k \in 1..Len(ret.fetches) : ret.fetches[k].closed
=============================================================================
